---- MODULE Spec2Model ----
(***************************************************************************)
(* Task management service: the task store, the request-scoped session of  *)
(* the single-item operations, and the concurrent batch processor          *)
(* (TaskService.process_task_batch), which runs one unit per id, each in   *)
(* its own session, and joins them with asyncio.gather.                    *)
(***************************************************************************)
EXTENDS Integers, Sequences, FiniteSets, TLC

\* ------------------------------------------------------------------ bounds

\* Ids 1..MaxId may name a stored task in the initial state.
MaxId == 2
\* Longest id list handed to process_task_batch.
MaxUnits == 2
\* The clock stops at MaxTime.
MaxTime == 2
\* Single-item requests (create, update, delete) in one run beside a batch.
MaxReqs == 1
\* Requests in one run of requests only, one after the other.
MaxOps == 2
\* Largest skip and limit of a listing.
MaxWindow == 2
\* connections of the pool left free by the requests outside the run
MaxFree == 1

\* ------------------------------------------------------- program constants

\* asyncio.sleep(2): the processing delay of one unit.
ProcessingDelay == 2
\* Column default of Task.priority.
DefaultPriority == 3

PENDING == "pending"
IN_PROGRESS == "in_progress"
COMPLETED == "completed"

\* The values of the task_status column.
task_status_enum == {PENDING, IN_PROGRESS, COMPLETED}

NULL == "null"

Ids == 1..MaxId
\* Every id the store can hold: the seeded ones and the ones create_task adds.
Keys == 1..(MaxId + MaxOps)
Units == 1..MaxUnits
\* One session for the caller of the batch, one per unit, one per request.
SessIds == 1..(MaxUnits + 1 + MaxOps)

\* Optional[...] values of the request schemas.
None == <<>>
Some(v) == <<v>>
\* A field of a request body sent as null.
Null == <<NULL, NULL>>

\* ---------------------------------------------------------------- storage

\* create_async_engine(..., pool_size=10, max_overflow=20): the pool hands
\* out at most pool_size + max_overflow connections at a time.
pool_size == 10
max_overflow == 20

NoTask == [absent |-> TRUE]
NoWrite == [op |-> "none", id |-> 0]

Task(title, description, status, priority, at) ==
    [title |-> title, description |-> description, status |-> status,
     priority |-> priority, created_at |-> at, updated_at |-> at]

\* A store as the tests seed it: each id is free or holds a task, pending or
\* completed.
SeedTask(st) == Task("t1", NULL, st, DefaultPriority, 0)

SeedStatuses == {PENDING, COMPLETED}

SeedStores ==
    {[k \in Keys |-> IF k \in Ids THEN f[k] ELSE NoTask] :
        f \in [Ids -> {NoTask} \cup {SeedTask(st) : st \in SeedStatuses}]}

Exists(store, id) == id \in DOMAIN store /\ store[id] # NoTask

\* An UPDATE that follows the order of the states: it matches the row only
\* when the task is in progress.
RowCountInOrder(store, id) ==
    IF Exists(store, id) /\ store[id].status = IN_PROGRESS THEN 1 ELSE 0

\* The rows an UPDATE changes: none when the row holds the new values already.
RowCountChanged(store, id) ==
    IF Exists(store, id) /\ store[id].status # "completed" THEN 1 ELSE 0

\* The rows an UPDATE ... WHERE id = :id matches.
RowCount(store, id) == IF Exists(store, id) THEN 1 ELSE 0

\* A row count test that takes "no row" for a match.
RowMatchedAlways(rowcount) == rowcount >= 0

\* update_status: result.rowcount > 0
RowMatched(rowcount) == rowcount > 0

\* The columns update_task may set.
PatchFields == {"title", "description", "status", "priority"}

\* An UPDATE that writes the whole row, a column the patch does not set as
\* its default.
SetColsReset(task, cols, at) ==
    [f \in DOMAIN task |->
        IF f \in DOMAIN cols THEN cols[f]
        ELSE IF f = "updated_at" THEN at
        ELSE IF f = "status" THEN PENDING
        ELSE task[f]]

\* An UPDATE that stamps both timestamps.
SetColsStamped(task, cols, at) ==
    [f \in DOMAIN task |->
        IF f \in DOMAIN cols THEN cols[f]
        ELSE IF f \in {"updated_at", "created_at"} THEN at
        ELSE task[f]]

\* UPDATE tasks SET <cols>, updated_at = now() on one row.
SetCols(task, cols, at) ==
    [f \in DOMAIN task |->
        IF f \in DOMAIN cols THEN cols[f]
        ELSE IF f = "updated_at" THEN at
        ELSE task[f]]

\* An UPDATE of the status without its WHERE clause: every row is written.
ApplyEveryRow(store, w) ==
    CASE w.op = "status" ->
            [k \in DOMAIN store |->
                IF Exists(store, k)
                THEN [store[k] EXCEPT !.status = w.status, !.updated_at = w.at]
                ELSE store[k]]
      [] w.op = "update" /\ Exists(store, w.id) ->
            [store EXCEPT ![w.id] = SetCols(store[w.id], w.cols, w.at)]
      [] w.op = "insert" -> [store EXCEPT ![w.id] = w.task]
      [] w.op = "delete" -> [store EXCEPT ![w.id] = NoTask]
      [] OTHER -> store

\* The effect of one statement on the store, once its transaction commits.
Apply(store, w) ==
    CASE w.op = "status" /\ Exists(store, w.id) ->
            [store EXCEPT ![w.id].status = w.status, ![w.id].updated_at = w.at]
      [] w.op = "update" /\ Exists(store, w.id) ->
            [store EXCEPT ![w.id] = SetCols(store[w.id], w.cols, w.at)]
      [] w.op = "insert" -> [store EXCEPT ![w.id] = w.task]
      [] w.op = "delete" -> [store EXCEPT ![w.id] = NoTask]
      [] OTHER -> store

VARIABLES
    db,         \* the committed store: id -> task or NoTask
    nextId,     \* the autoincrement counter of tasks.id
    req,        \* the single-item request in progress, or the last one
    reqs,       \* single-item requests begun so far
    now,        \* the clock
    batch,      \* the call of process_task_batch and its caller
    unit,       \* the units of the batch, by position in task_ids
    nextSess,   \* the next session the session factory hands out
    open,       \* the sessions that are open
    pending,    \* session -> the statement of its open transaction
    deleted,    \* history: the ids whose DELETE was committed
    conns,      \* the sessions that hold a connection of the pool
    others      \* connections of the pool held by requests outside the run

vars == <<db, nextId, req, reqs, now, batch, unit, nextSess, open, pending, deleted,
          conns, others>>

IdleUnit == [pc |-> "idle", sess |-> 0, updated |-> FALSE, result |-> "none",
             fault |-> FALSE, committed |-> FALSE, rolled |-> FALSE, slept_at |-> 0]

\* A request: its handler's position, its input (body, path id, query
\* parameters), the task it loaded, and its result.
NoReq == [pc |-> "idle", kind |-> "none", id |-> 0, sess |-> 0, body |-> None,
          patch |-> None,
          loaded |-> NoTask, task |-> NoTask, status_code |-> 0,
          skip |-> 0, limit |-> 0, status_filter |-> None,
          tasks |-> <<>>, total |-> 0]

InitStore ==
    /\ db \in SeedStores
    /\ nextId = MaxId + 1
    /\ req = NoReq
    /\ reqs = 0
    /\ now = 0
    /\ batch = [pc |-> "idle", task_ids |-> <<>>, sess |-> 0, started |-> 0,
                processed_count |-> 0, total_requested |-> 0, status_code |-> 0]
    /\ unit = [u \in Units |-> IdleUnit]
    /\ nextSess = 1
    /\ open = {}
    /\ pending = [s \in SessIds |-> NoWrite]
    /\ deleted = {}
    /\ conns = {}

\* The application has just started: every connection of the pool is free.
Init == InitStore /\ others = 0

\* The application under load: requests outside the run hold all but MaxFree
\* connections of the pool, and hold them throughout.
InitPool ==
    /\ InitStore
    /\ others = pool_size + max_overflow - MaxFree

\* ------------------------------------------------------------ the batch

N == Len(batch.task_ids)
Active == 1..N

\* The id lists a caller may hand to process_task_batch: any sequence of ids,
\* the empty one and ones with duplicates and unknown ids included.
RECURSIVE SeqsUpTo(_, _)
SeqsUpTo(S, n) ==
    IF n = 0 THEN {<<>>}
    ELSE LET shorter == SeqsUpTo(S, n - 1)
         IN  shorter \cup {Append(q, x) : q \in {r \in shorter : Len(r) = n - 1}, x \in S}

BatchInputs == SeqsUpTo(Ids, MaxUnits)

\* The unit works through the session of the service that was called.
ServiceSession == batch.sess

\* async with async_session_factory() as session: a new session for the unit.
UnitSession == nextSess

\* One unit awaited after the other, as a loop over the ids would do.
LaunchableInTurn(u) ==
    u \in Active /\ (IF u = 1 THEN TRUE ELSE unit[u - 1].pc = "done")

\* Only the first coroutine is handed to the event loop.
LaunchableFirstOnly(u) == u \in Active /\ u = 1

\* asyncio.gather wraps every coroutine of the list in a task at the call, so
\* every unit is scheduled at once.
Launchable(u) == u \in Active

\* The units the event loop has still to run up to their first suspension.
Ready == {u \in Active : unit[u].pc = "created" /\ Launchable(u)}

\* The lock of a row: a statement on a row waits while another session's open
\* transaction has written it.
LockFree(id, s) ==
    \A t \in SessIds \ {s} : pending[t].id # id

\* A session takes a connection of the pool at its first statement; the
\* checkout waits while every connection is out.
PoolAvailable == Cardinality(conns) + others < pool_size + max_overflow

\* A commit or rollback that keeps the session's connection.
ReleaseNever(held, s) == held

\* session.commit(), session.rollback() and the close of the session give the
\* session's connection back to the pool.
Release(held, s) == held \ {s}

\* A session made without async with: nothing closes it.
CloseNever(opened, s) == opened

\* Leaving async with async_session_factory() as session closes the session.
Close(opened, s) == opened \ {s}

\* gather called without return_exceptions.
return_exceptions_off == FALSE

\* gather(..., return_exceptions=True)
return_exceptions == TRUE

\* The units that ended by raising.
Raised == {u \in Active : unit[u].result = "exc"}

\* A wait that ends with the first unit that is done.
JoinFirstCompleted == \A u \in Active : \E v \in Active : unit[v].pc = "done"

\* gather returns once every awaitable is done.
JoinReady == \A u \in Active : unit[u].pc = "done"

\* Without return_exceptions the first exception is raised to the awaiter at once.
GatherDone ==
    IF return_exceptions THEN JoinReady ELSE JoinReady \/ Raised # {}

\* sum(1 for result in results if result is True)
CountTrue(results) == Cardinality({u \in DOMAIN results : results[u] = "True"})

\* A unit that raises when update_status matched no row.
UnitResultRaises(updated) == IF updated THEN "True" ELSE "exc"

\* A unit that reports success whatever update_status returned.
UnitResultAlways(updated) == "True"

\* return True if updated else False
UnitResult(updated) == IF updated THEN "True" ELSE "False"

\* A rollback on a session all units share discards every unit's statement.
RollbackShared(s) == SessIds

\* session.rollback() discards the transaction of the session it is called on.
RollbackScope(s) == {s}

\* The router's process_batch calls service.process_task_batch(request.task_ids);
\* the service lists one coroutine per id and hands them to gather.
BatchStart(ids) ==
    /\ batch.pc = "idle"
    /\ now + ProcessingDelay <= MaxTime
    /\ batch' = [batch EXCEPT !.pc = "gather", !.task_ids = ids,
                              !.sess = nextSess, !.started = now]
    /\ nextSess' = nextSess + 1
    /\ open' = open \cup {nextSess}
    /\ unit' = [u \in Units |->
                  IF u <= Len(ids) THEN [IdleUnit EXCEPT !.pc = "created"] ELSE IdleUnit]
    /\ UNCHANGED <<db, deleted, nextId, req, reqs, now, pending, conns, others>>

\* A validator that turns away negative ids only.
BatchProcessRequestNonNegative(ids) ==
    Len(ids) >= 1 /\ \A i \in 1..Len(ids) : ids[i] >= 0

\* BatchProcessRequest: task_ids has min_length=1 and validate_task_ids raises
\* for an empty list and for any id <= 0.
BatchProcessRequestValid(ids) ==
    Len(ids) >= 1 /\ \A i \in 1..Len(ids) : ids[i] > 0

\* The body fails validation: the request is answered 422 before the handler
\* is called; the session get_db made for it is closed unused.
BatchReject(ids) ==
    /\ batch.pc = "idle"
    /\ batch' = [batch EXCEPT !.pc = "rejected", !.task_ids = ids,
                              !.status_code = 422]
    /\ nextSess' = nextSess + 1
    /\ UNCHANGED <<db, deleted, nextId, req, reqs, now, unit, open, pending,
                   conns, others>>

\* POST /api/tasks/process-batch: the body is validated by BatchProcessRequest,
\* then process_batch hands request.task_ids to the service.
ProcessBatch(ids) ==
    \/ BatchProcessRequestValid(ids) /\ BatchStart(ids)
    \/ ~BatchProcessRequestValid(ids) /\ BatchReject(ids)

\* The id lists a client may send: empty, with ids that are not positive, with
\* duplicates and with unknown ids.
RawBatchInputs == SeqsUpTo((-1)..MaxId, MaxUnits)

\* process_single_task up to its first suspension: open the session, start the
\* delay. The event loop runs the ready tasks in the order gather created them.
UnitStart(u) ==
    /\ batch.pc = "gather"
    /\ u \in Ready
    /\ \A v \in Ready : u <= v
    /\ unit' = [unit EXCEPT ![u].pc = "sleep", ![u].sess = UnitSession,
                            ![u].slept_at = now]
    /\ open' = open \cup {UnitSession}
    /\ nextSess' = nextSess + 1
    /\ UNCHANGED <<db, deleted, nextId, req, reqs, now, batch, pending, conns, others>>

\* await asyncio.sleep(2) returns.
UnitWake(u) ==
    /\ u \in Active /\ Ready = {}
    /\ unit[u].pc = "sleep"
    /\ now >= unit[u].slept_at + ProcessingDelay
    /\ unit' = [unit EXCEPT ![u].pc = "update"]
    /\ UNCHANGED <<db, deleted, nextId, req, reqs, now, batch, nextSess, open, pending, conns, others>>

\* repo.update_status(task_id, COMPLETED) through the unit's session.
UnitUpdateStatus(u) ==
    LET s == unit[u].sess
        id == batch.task_ids[u]
        rowcount == RowCount(db, id)
    IN  /\ u \in Active /\ Ready = {}
        /\ unit[u].pc = "update"
        /\ PoolAvailable
        /\ LockFree(id, s)
        /\ conns' = conns \cup {s}
        /\ pending' = IF rowcount > 0
                      THEN [pending EXCEPT ![s] =
                              [op |-> "status", id |-> id, status |-> COMPLETED, at |-> now]]
                      ELSE pending
        /\ unit' = [unit EXCEPT ![u].pc = "commit", ![u].updated = RowMatched(rowcount)]
        /\ UNCHANGED <<db, deleted, nextId, req, reqs, now, batch, nextSess, open, others>>

\* The first statement of the unit's session takes a connection of the pool:
\* the unit waits here while every connection is out.
UnitCheckout(u) ==
    LET s == unit[u].sess
    IN  /\ u \in Active /\ Ready = {}
        /\ unit[u].pc = "update"
        /\ PoolAvailable
        /\ conns' = conns \cup {s}
        /\ unit' = [unit EXCEPT ![u].pc = "execute"]
        /\ UNCHANGED <<db, deleted, nextId, req, reqs, now, batch, nextSess, open,
                       pending, others>>

\* The UPDATE of update_status on the connection the unit holds: it waits
\* while another session's open transaction has written the row.
UnitExecute(u) ==
    LET s == unit[u].sess
        id == batch.task_ids[u]
        rowcount == RowCount(db, id)
    IN  /\ u \in Active /\ Ready = {}
        /\ unit[u].pc = "execute"
        /\ LockFree(id, s)
        /\ pending' = IF rowcount > 0
                      THEN [pending EXCEPT ![s] =
                              [op |-> "status", id |-> id, status |-> COMPLETED, at |-> now]]
                      ELSE pending
        /\ unit' = [unit EXCEPT ![u].pc = "commit", ![u].updated = RowMatched(rowcount)]
        /\ UNCHANGED <<db, deleted, nextId, req, reqs, now, batch, nextSess, open,
                       conns, others>>

\* await session.commit(), then return True / return False; the session is
\* closed on leaving async with.
UnitCommit(u) ==
    LET s == unit[u].sess
    IN  /\ u \in Active /\ Ready = {}
        /\ unit[u].pc = "commit"
        /\ db' = Apply(db, pending[s])
        /\ pending' = [pending EXCEPT ![s] = NoWrite]
        /\ unit' = [unit EXCEPT ![u].pc = "done", ![u].committed = TRUE,
                                ![u].result = UnitResult(unit[u].updated)]
        /\ conns' = Release(conns, s)
        /\ open' = Close(open, s)
        /\ UNCHANGED <<nextId, req, reqs, now, batch, nextSess, deleted, others>>

\* The delay, the statement or the commit raises; the handler rolls the session
\* back and the unit returns False. The session is closed on leaving async with.
UnitRollback(u) ==
    LET s == unit[u].sess
    IN  /\ u \in Active /\ Ready = {}
        /\ unit[u].pc \in {"sleep", "update", "commit"}
        /\ pending' = [t \in SessIds |->
                         IF t \in RollbackScope(s) THEN NoWrite ELSE pending[t]]
        /\ unit' = [unit EXCEPT ![u].pc = "done", ![u].fault = TRUE,
                                ![u].rolled = TRUE, ![u].result = "False"]
        /\ conns' = Release(conns, s)
        /\ open' = Close(open, s)
        /\ UNCHANGED <<db, deleted, nextId, req, reqs, now, batch, nextSess, others>>

\* The delay, the statement or the commit raises and session.rollback() raises
\* too: the exception leaves the coroutine, the session is closed on the way
\* out and its transaction is discarded.
UnitRollbackRaise(u) ==
    LET s == unit[u].sess
    IN  /\ u \in Active /\ Ready = {}
        /\ unit[u].pc \in {"sleep", "update", "commit"}
        /\ pending' = [pending EXCEPT ![s] = NoWrite]
        /\ unit' = [unit EXCEPT ![u].pc = "done", ![u].fault = TRUE,
                                ![u].result = "exc"]
        /\ conns' = Release(conns, s)
        /\ open' = Close(open, s)
        /\ UNCHANGED <<db, deleted, nextId, req, reqs, now, batch, nextSess, others>>

\* gather is done: the service counts the True results, the router builds the
\* response, and the request's own session is committed and closed.
BatchJoin ==
    /\ batch.pc = "gather"
    /\ GatherDone
    /\ batch' = IF ~return_exceptions /\ Raised # {}
                THEN [batch EXCEPT !.pc = "raised"]
                ELSE [batch EXCEPT !.pc = "returned", !.status_code = 200,
                        !.processed_count = CountTrue([u \in Active |-> unit[u].result]),
                        !.total_requested = Len(batch.task_ids)]
    /\ open' = Close(open, batch.sess)
    /\ UNCHANGED <<db, deleted, nextId, req, reqs, now, unit, nextSess, pending, conns, others>>

\* Time passes. The event loop runs every ready task before it waits on a timer.
Tick ==
    /\ now < MaxTime
    /\ Ready = {}
    /\ now' = now + 1
    /\ UNCHANGED <<db, deleted, nextId, req, reqs, batch, unit, nextSess, open, pending, conns, others>>


\* ------------------------------------------------- single-item requests

\* A status field typed as a plain string accepts any value.
AnyStatus == task_status_enum \cup {"archived"}

\* The values the TaskUpdate schema accepts for status.
TaskStatusEnum == {PENDING, IN_PROGRESS, COMPLETED}

\* Field(ge=1, le=5)
PriorityMin == 1
PriorityMax == 5

\* TaskUpdate: every field optional, status one of the enumeration, priority in range.
TaskUpdateValid(raw) ==
    /\ IF raw.status = None THEN TRUE ELSE raw.status[1] \in TaskStatusEnum
    /\ IF raw.priority = None THEN TRUE ELSE raw.priority[1] \in PriorityMin..PriorityMax

\* A schema that tells a field sent as null from a field left out and hands
\* the null on as a value.
TaskUpdateKeepsNull(raw) == raw

\* TaskUpdate(**body): every field is Optional with default None, so a field
\* sent as null and a field left out both read None.
TaskUpdate(raw) ==
    [f \in PatchFields |-> IF raw[f] = Null THEN None ELSE raw[f]]

\* TaskCreate: title required, priority in range when given.
TaskCreateValid(raw) ==
    IF raw.priority = None THEN TRUE ELSE raw.priority[1] \in PriorityMin..PriorityMax

\* A schema whose priority defaults to the lowest value.
TaskCreateMinDefault(raw) ==
    [title |-> raw.title,
     description |-> IF raw.description = None THEN NULL ELSE raw.description[1],
     priority |-> IF raw.priority = None THEN PriorityMin ELSE raw.priority[1]]

\* TaskCreate fills in the defaults, description None and priority 3, and
\* ignores every other field of the body (extra = ignore).
TaskCreate(raw) ==
    [title |-> raw.title,
     description |-> IF raw.description = None THEN NULL ELSE raw.description[1],
     priority |-> IF raw.priority = None THEN DefaultPriority ELSE raw.priority[1]]

\* get_db: one new session per request.
get_db == nextSess

\* The attributes update_task assigns: the fields of the patch that are not None.
Assigned(patch) == {f \in PatchFields : patch[f] # None}

\* The columns the flush writes: the assigned attributes whose value differs from
\* the loaded one (the unit of work emits no UPDATE for an unchanged attribute).
Changed(task, patch) == {f \in Assigned(patch) : patch[f][1] # task[f]}

\* An UPDATE that writes every column of the loaded object back.
FlushAllCols(loaded, patch) ==
    [f \in PatchFields |-> IF patch[f] # None THEN patch[f][1] ELSE loaded[f]]

\* The UPDATE of the flush: the changed columns with their assigned values.
FlushCols(loaded, patch) == [f \in Changed(loaded, patch) |-> patch[f][1]]

\* A repository that commits what it flushes.
FlushCommits(store, w) == Apply(store, w)

\* await self._session.flush(): the statement is sent inside the session's
\* transaction; the committed store is as it was.
Flush(store, w) == store

\* An insert that takes the highest stored id plus one.
NextIdMaxPlusOne(store, counter) ==
    IF \E k \in DOMAIN store : Exists(store, k)
    THEN 1 + CHOOSE k \in DOMAIN store :
                 Exists(store, k) /\ \A j \in DOMAIN store : Exists(store, j) => j <= k
    ELSE 1

\* Task.id, autoincrement: the insert takes the value of the table's counter.
AutoIncrement(store, counter) == counter

\* TaskService.create_task: a task with status pending and the fields of the
\* data; the repository adds it, flushes the INSERT and refreshes it.
create_task(body, data) ==
    LET id == AutoIncrement(db, nextId)
        t == Task(data.title, data.description, PENDING, data.priority, now)
        w == [op |-> "insert", id |-> id, task |-> t]
    IN  /\ req.pc \in {"idle", "done"}
        /\ id \in Keys
        /\ PoolAvailable
        /\ conns' = conns \cup {get_db}
        /\ pending' = [pending EXCEPT ![get_db] = w]
        /\ db' = Flush(db, w)
        /\ req' = [NoReq EXCEPT !.pc = "commit", !.kind = "create", !.id = id,
                                !.sess = get_db, !.body = body, !.patch = body,
                                !.task = t]
        /\ nextId' = IF id >= nextId THEN id + 1 ELSE nextId
        /\ reqs' = reqs + 1
        /\ nextSess' = nextSess + 1
        /\ open' = open \cup {get_db}
        /\ UNCHANGED <<deleted, now, batch, unit, others>>

\* POST /api/tasks: the body is validated by TaskCreate, then create_task.
CreateTask(raw) ==
    /\ TaskCreateValid(raw)
    /\ create_task(raw, TaskCreate(raw))

\* A lookup that answers with an empty result as if it were a row.
TaskNotFoundNever(task) == FALSE

\* get_task: if task is None: raise TaskNotFoundException
TaskNotFoundException(task) == task = NoTask

\* repository.get_by_id: the row or None.
get_by_id(store, id) == IF Exists(store, id) THEN store[id] ELSE NoTask

\* update_task and delete_task that go on without loading the task.
GetTaskUnchecked(kind, id, body, patch) ==
    /\ req.pc \in {"idle", "done"}
    /\ PoolAvailable
    /\ req' = [NoReq EXCEPT !.pc = IF kind = "get" THEN "commit" ELSE "flush",
                            !.kind = kind, !.id = id, !.sess = get_db,
                            !.body = body, !.patch = patch,
                            !.loaded = get_by_id(db, id),
                            !.task = get_by_id(db, id)]
    /\ open' = open \cup {get_db}
    /\ conns' = conns \cup {get_db}
    /\ reqs' = reqs + 1
    /\ nextSess' = nextSess + 1
    /\ UNCHANGED <<db, deleted, nextId, now, batch, unit, pending, others>>

\* get_task, called by the GET handler, update_task and delete_task: the row, or
\* TaskNotFoundException, which the router turns into 404 and get_db into a
\* rollback and the close of the session, which gives the connection of the
\* SELECT back.
GetTask(kind, id, body, patch) ==
    LET task == get_by_id(db, id)
    IN  /\ req.pc \in {"idle", "done"}
        /\ PoolAvailable
        /\ req' = IF TaskNotFoundException(task)
                  THEN [NoReq EXCEPT !.pc = "done", !.kind = kind, !.id = id,
                                     !.sess = get_db, !.body = body, !.patch = patch,
                                     !.status_code = 404]
                  ELSE [NoReq EXCEPT !.pc = IF kind = "get" THEN "commit" ELSE "flush",
                                     !.kind = kind, !.id = id, !.sess = get_db,
                                     !.body = body, !.patch = patch,
                                     !.loaded = task, !.task = task]
        /\ open' = IF TaskNotFoundException(task) THEN open ELSE open \cup {get_db}
        /\ conns' = IF TaskNotFoundException(task) THEN conns ELSE conns \cup {get_db}
        /\ reqs' = reqs + 1
        /\ nextSess' = nextSess + 1
        /\ UNCHANGED <<db, deleted, nextId, now, batch, unit, pending, others>>

\* GET /api/tasks/{id}
ReadTask(id) == GetTask("get", id, None, None)

\* PUT /api/tasks/{id}: the body is validated by TaskUpdate, then the task is loaded.
UpdateTaskGet(id, raw) ==
    /\ TaskUpdateValid(TaskUpdate(raw))
    /\ GetTask("update", id, raw, TaskUpdate(raw))

\* update_task assigns the patch to the loaded task; repository.update flushes
\* the changed columns and refreshes the task.
UpdateTaskFlush ==
    LET s == req.sess
        cols == FlushCols(req.task, req.patch)
        changed == DOMAIN cols
        w == [op |-> "update", id |-> req.id, cols |-> cols, at |-> now]
    IN  /\ req.pc = "flush" /\ req.kind = "update"
        /\ IF changed = {} THEN TRUE ELSE LockFree(req.id, s)
        /\ pending' = IF changed = {} THEN pending ELSE [pending EXCEPT ![s] = w]
        /\ db' = IF changed = {} THEN db ELSE Flush(db, w)
        /\ req' = [req EXCEPT !.pc = "commit",
                     !.task = IF changed = {} THEN db[req.id]
                              ELSE SetCols(db[req.id], cols, now)]
        /\ UNCHANGED <<deleted, nextId, reqs, now, batch, unit, nextSess, open, conns, others>>

\* DELETE /api/tasks/{id}: load the task.
DeleteTaskGet(id) == GetTask("delete", id, None, None)

\* repository.delete: session.delete(task) and flush.
DeleteTaskFlush ==
    LET s == req.sess
        w == [op |-> "delete", id |-> req.id]
    IN  /\ req.pc = "flush" /\ req.kind = "delete"
        /\ LockFree(req.id, s)
        /\ pending' = [pending EXCEPT ![s] = w]
        /\ db' = Flush(db, w)
        /\ req' = [req EXCEPT !.pc = "commit"]
        /\ UNCHANGED <<deleted, nextId, reqs, now, batch, unit, nextSess, open, conns, others>>

\* get_db after the handler has returned: commit, then the session is closed.
ReqCommit ==
    LET s == req.sess
    IN  /\ req.pc = "commit"
        /\ db' = Apply(db, pending[s])
        /\ pending' = [pending EXCEPT ![s] = NoWrite]
        /\ open' = Close(open, s)
        /\ conns' = Release(conns, s)
        /\ req' = [req EXCEPT !.pc = "done",
                     !.status_code = CASE req.kind = "create" -> 201
                                       [] req.kind = "delete" -> 204
                                       [] OTHER -> 200]
        /\ deleted' = IF pending[s].op = "delete" THEN deleted \cup {pending[s].id}
                       ELSE deleted
        /\ UNCHANGED <<nextId, reqs, now, batch, unit, nextSess, others>>

\* get_db when the statement of the handler or the commit raises: except
\* Exception: await session.rollback(); raise. The session is closed on leaving
\* async with and the error is answered as a server error.
ReqRollback ==
    LET s == req.sess
    IN  /\ req.pc \in {"flush", "commit"}
        /\ pending' = [pending EXCEPT ![s] = NoWrite]
        /\ open' = Close(open, s)
        /\ conns' = Release(conns, s)
        /\ req' = [req EXCEPT !.pc = "done", !.status_code = 500]
        /\ UNCHANGED <<db, deleted, nextId, reqs, now, batch, unit, nextSess, others>>

\* The request bodies of the runs that mix requests with a batch.
CreateSamples ==
    {[title |-> "t2", description |-> None, priority |-> None],
     [title |-> "t2", description |-> Some("d1"), priority |-> Some(PriorityMax)]}

\* A status outside the enumeration, as a client may send it.
RawStatuses == task_status_enum \cup {"archived"}

PatchSamples ==
    {[title |-> None, description |-> None, status |-> Some(st), priority |-> None] :
        st \in RawStatuses}
    \cup {[title |-> Some("t2"), description |-> Some("d1"), status |-> None,
           priority |-> Some(PriorityMax)]}

\* ------------------------------------------------------------- listing

\* get_all: if status_filter: an absent and an empty parameter add no WHERE.
FilterGiven(status_filter) == status_filter # None /\ status_filter # Some("")

\* The rows of SELECT ... FROM tasks [WHERE status = :status_filter].
Matching(store, status_filter) ==
    {k \in DOMAIN store :
        /\ Exists(store, k)
        /\ IF FilterGiven(status_filter) THEN store[k].status = status_filter[1] ELSE TRUE}

\* A count taken over the whole table.
CountAll(store, status_filter) == Cardinality({k \in DOMAIN store : Exists(store, k)})

\* count_query: SELECT count(*) with the same WHERE; total = scalar() or 0.
CountQuery(store, status_filter) == Cardinality(Matching(store, status_filter))

\* The rows of S that an ascending order puts first.
Oldest(store, S) == {k \in S : \A j \in S : store[k].created_at <= store[j].created_at}

\* The rows of S that ORDER BY created_at DESC puts first.
Newest(store, S) == {k \in S : \A j \in S : store[j].created_at <= store[k].created_at}

\* ORDER BY created_at DESC: every order of the rows that is descending in
\* created_at; rows of equal created_at come in an order the store chooses.
RECURSIVE OrderBy(_, _)
OrderBy(store, S) ==
    IF S = {} THEN {<<>>}
    ELSE UNION {{<<k>> \o q : q \in OrderBy(store, S \ {k})} : k \in Newest(store, S)}

\* .offset(skip).limit(limit)
OffsetLimit(q, skip, limit) ==
    SubSeq(q, skip + 1, IF skip + limit < Len(q) THEN skip + limit ELSE Len(q))

\* GET /api/tasks: list_tasks hands skip, limit and status to get_all, which
\* runs the count, then the page, in the request's session.
ListTasks(skip, limit, status_filter) ==
    /\ req.pc \in {"idle", "done"}
    /\ \E page \in {OffsetLimit(q, skip, limit) :
                        q \in OrderBy(db, Matching(db, status_filter))} :
          req' = [NoReq EXCEPT !.pc = "commit", !.kind = "list", !.sess = get_db,
                               !.skip = skip, !.limit = limit,
                               !.status_filter = status_filter,
                               !.total = CountQuery(db, status_filter),
                               !.tasks = page]
    /\ PoolAvailable
    /\ open' = open \cup {get_db}
    /\ conns' = conns \cup {get_db}
    /\ reqs' = reqs + 1
    /\ nextSess' = nextSess + 1
    /\ UNCHANGED <<db, deleted, nextId, now, batch, unit, pending, others>>

\* The query parameters of the listing.
Windows == 0..MaxWindow
StatusFilters == {None, Some(""), Some(PENDING), Some(COMPLETED)}

\* The bodies of POST /api/tasks: one with every optional field, and one with
\* none of them and a field the schema does not declare.
CreateBodies ==
    {[title |-> "t2", description |-> Some("d1"), priority |-> Some(PriorityMax)],
     [title |-> "t3", description |-> None, priority |-> None, status |-> COMPLETED]}

\* The bodies of PUT /api/tasks/{id}: a patch of the status alone, one of the
\* priority alone, one of the other fields, and one outside the priority range.
PatchBodies ==
    {[title |-> None, description |-> None, status |-> Some(PENDING), priority |-> None],
     [title |-> None, description |-> None, status |-> None,
      priority |-> Some(PriorityMin)],
     [title |-> Some("t2"), description |-> Some("d1"), status |-> None,
      priority |-> Some(PriorityMax)],
     [title |-> None, description |-> None, status |-> None,
      priority |-> Some(PriorityMax + 1)]}

\* Bodies of PUT /api/tasks/{id} with fields sent as null: the text fields,
\* every field, and a new description beside nulls.
NullBodies ==
    {[title |-> Null, description |-> Null, status |-> None, priority |-> None],
     [title |-> Null, description |-> Null, status |-> Null, priority |-> Null],
     [title |-> Null, description |-> Some("d2"), status |-> Null, priority |-> Null]}

\* The ids of the requests: every id the counter has passed and the next one;
\* the ids beyond it are unassigned like it.
KnownIds == {k \in Keys : k <= nextId}

\* Data handed to the service by a caller that built it without the schemas'
\* validation, as the unit tests of the service build theirs.
ServiceData ==
    {[title |-> "t2", description |-> NULL, priority |-> p] :
        p \in {PriorityMin - 1, DefaultPriority, PriorityMax + 1}}

ServicePatches ==
    {[title |-> None, description |-> None, status |-> None, priority |-> Some(p)] :
        p \in {PriorityMin - 1, PriorityMin, PriorityMax + 1}}

\* ------------------------------------------------------- specifications

\* A run of one batch with no fault and no other request.
NextQuiet ==
    \/ \E ids \in BatchInputs : BatchStart(ids)
    \/ \E u \in Units : UnitStart(u)
    \/ \E u \in Units : UnitWake(u)
    \/ \E u \in Units : UnitUpdateStatus(u)
    \/ \E u \in Units : UnitCommit(u)
    \/ BatchJoin
    \/ Tick

\* A run of one batch in which any step of any unit may fail.
NextBatch ==
    \/ NextQuiet
    \/ \E u \in Units : UnitRollback(u)
    \/ \E u \in Units : UnitRollbackRaise(u)

\* Requests and one batch, interleaved.
Next ==
    \/ \E raw \in CreateSamples : reqs < MaxReqs /\ CreateTask(raw)
    \/ \E id \in Keys, raw \in PatchSamples : reqs < MaxReqs /\ UpdateTaskGet(id, raw)
    \/ UpdateTaskFlush
    \/ \E id \in Keys : reqs < MaxReqs /\ DeleteTaskGet(id)
    \/ DeleteTaskFlush
    \/ ReqCommit
    \/ \E ids \in BatchInputs : BatchStart(ids)
    \/ \E u \in Units : UnitStart(u)
    \/ \E u \in Units : UnitWake(u)
    \/ \E u \in Units : UnitUpdateStatus(u)
    \/ \E u \in Units : UnitCommit(u)
    \/ BatchJoin
    \/ Tick

\* Requests through the HTTP boundary that read or write one task, one after
\* the other, and no batch.
NextCrud ==
    \/ \E raw \in CreateBodies : reqs < MaxOps /\ CreateTask(raw)
    \/ \E id \in KnownIds : reqs < MaxOps /\ ReadTask(id)
    \/ \E id \in KnownIds, raw \in PatchBodies : reqs < MaxOps /\ UpdateTaskGet(id, raw)
    \/ UpdateTaskFlush
    \/ \E id \in KnownIds : reqs < MaxOps /\ DeleteTaskGet(id)
    \/ DeleteTaskFlush
    \/ ReqCommit
    \/ Tick

\* Creations and updates whose bodies send fields as null, one after the other.
NextPatch ==
    \/ \E raw \in CreateBodies : reqs < MaxOps /\ CreateTask(raw)
    \/ \E id \in KnownIds, raw \in NullBodies : reqs < MaxOps /\ UpdateTaskGet(id, raw)
    \/ UpdateTaskFlush
    \/ ReqCommit
    \/ Tick

\* The same requests with a storage layer that may fail a statement or a commit.
NextFault ==
    \/ NextCrud
    \/ ReqRollback

\* The body of the creations that fill the store of the listings.
ListedBodies == {[title |-> "t2", description |-> None, priority |-> None]}

\* Listings of a store that creations fill. A listing leaves the store as it
\* is, so a run ends with its listing.
NextList ==
    \/ \E raw \in ListedBodies :
          reqs < MaxOps /\ req.kind # "list" /\ CreateTask(raw)
    \/ \E skip \in Windows, limit \in Windows, f \in StatusFilters :
          reqs < MaxOps /\ req.kind # "list" /\ ListTasks(skip, limit, f)
    \/ ReqCommit
    \/ Tick

\* The service called directly, its caller committing the session.
NextService ==
    \/ \E data \in ServiceData : reqs < MaxOps /\ create_task(data, data)
    \/ \E id \in Keys, patch \in ServicePatches :
          reqs < MaxOps /\ GetTask("update", id, patch, patch)
    \/ UpdateTaskFlush
    \/ ReqCommit
    \/ Tick

\* One batch request sent to the endpoint, no fault.
NextBoundary ==
    \/ \E ids \in RawBatchInputs : ProcessBatch(ids)
    \/ \E u \in Units : UnitStart(u)
    \/ \E u \in Units : UnitWake(u)
    \/ \E u \in Units : UnitUpdateStatus(u)
    \/ \E u \in Units : UnitCommit(u)
    \/ BatchJoin
    \/ Tick

\* One batch on a pool that has fewer free connections than the batch has
\* units; the checkout of the connection is a step of its own.
NextPool ==
    \/ \E ids \in BatchInputs : BatchStart(ids)
    \/ \E u \in Units : UnitStart(u)
    \/ \E u \in Units : UnitWake(u)
    \/ \E u \in Units : UnitCheckout(u)
    \/ \E u \in Units : UnitExecute(u)
    \/ \E u \in Units : UnitCommit(u)
    \/ BatchJoin
    \/ Tick

\* Every step of one unit on the loaded pool.
UnitPoolStep(u) ==
    \/ UnitStart(u)
    \/ UnitWake(u)
    \/ UnitCheckout(u)
    \/ UnitExecute(u)
    \/ UnitCommit(u)

\* The event loop runs every task that can go on, the clock advances and the
\* pool hands a free connection to a unit that waits for one.
SpecPool ==
    /\ InitPool /\ [][NextPool]_vars
    /\ WF_vars(Tick)
    /\ WF_vars(BatchJoin)
    /\ \A u \in Units : WF_vars(UnitPoolStep(u))

Spec == Init /\ [][Next]_vars
SpecBoundary == Init /\ [][NextBoundary]_vars
SpecCrud == Init /\ [][NextCrud]_vars
SpecPatch == Init /\ [][NextPatch]_vars
SpecFault == Init /\ [][NextFault]_vars
SpecList == Init /\ [][NextList]_vars
SpecService == Init /\ [][NextService]_vars
SpecQuiet == Init /\ [][NextQuiet]_vars
SpecBatch == Init /\ [][NextBatch]_vars

\* Every step of one unit: the storage layer answers or fails.
UnitStep(u) ==
    \/ UnitStart(u)
    \/ UnitWake(u)
    \/ UnitUpdateStatus(u)
    \/ UnitCommit(u)
    \/ UnitRollback(u)
    \/ UnitRollbackRaise(u)

\* A batch under a fair event loop: time passes, every unit that can take a
\* step takes one, and the awaiter of gather resumes once gather is done.
SpecLive ==
    /\ Init /\ [][NextBatch]_vars
    /\ WF_vars(Tick)
    /\ WF_vars(BatchJoin)
    /\ \A u \in Units : WF_vars(UnitStep(u))

\* ---------------------------------------------------------------- claims

Done(u) == unit[u].pc = "done"
IdOf(u) == batch.task_ids[u]

\* C1: in a run of a batch with no fault and no other request, the count the
\* batch returns is the number of positions of the id list that name a stored
\* task, total_requested is the length of the list, and every stored task the
\* list names has status completed.
C1_BatchCount ==
    batch.pc = "returned" =>
        /\ batch.processed_count = Cardinality({u \in Active : Exists(db, IdOf(u))})
        /\ batch.total_requested = Len(batch.task_ids)
        /\ \A u \in Active : Exists(db, IdOf(u)) => db[IdOf(u)].status = COMPLETED

C1_Witness ==
    /\ batch.pc = "returned"
    /\ N = MaxUnits
    /\ batch.processed_count = N - 1
    /\ \E u \in Active : ~Exists(db, IdOf(u))

\* C2: whatever units fail, and at whatever step, the batch does not raise to
\* its caller; the count it returns is between 0 and the number of ids.
C2_NeverRaises ==
    /\ batch.pc # "raised"
    /\ batch.pc = "returned" => batch.processed_count \in 0..Len(batch.task_ids)

C2_Witness ==
    /\ batch.pc = "returned"
    /\ N = MaxUnits
    /\ \A u \in Active : unit[u].fault
    /\ \E u \in Active : unit[u].result = "exc"
    /\ \E u \in Active : unit[u].result = "False" /\ unit[u].updated
    /\ batch.processed_count = 0

\* C3: a unit whose id names a stored task and whose own steps do not fail
\* matches its row, commits and is counted, whatever the other units do; its
\* task is completed in the store.
C3_Containment ==
    /\ \A u \in Active :
          (Done(u) /\ ~unit[u].fault /\ Exists(db, IdOf(u))) =>
              /\ unit[u].updated /\ unit[u].committed /\ unit[u].result = "True"
              /\ db[IdOf(u)].status = COMPLETED
    /\ batch.pc = "returned" =>
          batch.processed_count =
              Cardinality({u \in Active : ~unit[u].fault /\ Exists(db, IdOf(u))})

C3_Witness ==
    \E u, v \in Active :
        /\ u # v /\ IdOf(u) = IdOf(v)
        /\ Done(u) /\ unit[u].fault
        /\ Done(v) /\ unit[v].result = "True"
        /\ batch.pc = "returned"

\* C4: every unit works through a session of its own, opened by the unit after
\* the batch was called: no two units share a session, none uses the session of
\* the service that was called, and no statement of the batch goes through
\* that session.
C4_PrivateSession ==
    /\ \A u \in Active :
          unit[u].pc \notin {"idle", "created"} =>
              /\ unit[u].sess > batch.sess
              /\ \A v \in Active \ {u} : unit[v].sess # unit[u].sess
    /\ \A s \in SessIds :
          pending[s] # NoWrite =>
              /\ s # batch.sess
              /\ Cardinality({u \in Active : unit[u].sess = s}) = 1
              /\ \A u \in Active : unit[u].sess = s => pending[s].id = IdOf(u)

C4_Witness ==
    /\ N = MaxId
    /\ \A u \in Active : unit[u].pc = "commit" /\ pending[unit[u].sess] # NoWrite

\* C5: the batch has returned only if every unit is done, with a boolean
\* result or an exception that gather captured.
C5_Join ==
    batch.pc \in {"returned", "raised"} =>
        \A u \in Active : Done(u) /\ unit[u].result \in {"True", "False", "exc"}

C5_Witness ==
    /\ batch.pc = "returned"
    /\ N = MaxUnits
    /\ \E u \in Active : unit[u].result = "exc"
    /\ \E u \in Active : unit[u].result \in {"True", "False"}

\* C6: under a fair event loop and a storage layer that answers or fails,
\* every unit of a batch ends and the batch returns.
C6_Terminates ==
    /\ (batch.pc = "gather") ~> (batch.pc = "returned")
    /\ \A u \in Units : (unit[u].pc = "created") ~> (unit[u].pc = "done")

C6_Witness ==
    /\ batch.pc = "returned"
    /\ N = MaxUnits
    /\ \A u, v \in Active : IdOf(u) = IdOf(v)
    /\ \E u \in Active : unit[u].fault

\* C7: the delays of the units of a batch overlap: every unit starts its delay
\* at the time of the call, so once the delay of any unit is over none is
\* still waiting to start.
C7_Parallel ==
    \A u \in Active :
        /\ unit[u].pc # "created" => unit[u].slept_at = batch.started
        /\ unit[u].pc \notin {"created", "sleep"} =>
              \A v \in Active : unit[v].pc # "created"

C7_Witness ==
    /\ batch.pc = "returned"
    /\ N = MaxUnits
    /\ batch.processed_count = N
    /\ now = batch.started + ProcessingDelay

\* C8: a unit is recorded as succeeded exactly if its statement matched a row
\* and its commit completed; a unit that met an error is rolled back (or its
\* rollback raised), is not recorded as succeeded, and the store holds a status
\* change only of units that committed.
C8_SuccessIffCommitted ==
    /\ \A u \in Active :
          /\ Done(u) => (unit[u].result = "True" <=> (unit[u].updated /\ unit[u].committed))
          /\ (Done(u) /\ unit[u].fault) =>
                /\ unit[u].result # "True"
                /\ ~unit[u].committed
                /\ unit[u].rolled \/ unit[u].result = "exc"
    /\ \A id \in Ids :
          (Exists(db, id) /\ db[id].updated_at > db[id].created_at) =>
              \E u \in Active : IdOf(u) = id /\ unit[u].updated /\ unit[u].committed

C8_Witness ==
    /\ batch.pc = "returned"
    /\ \E u \in Active :
          /\ unit[u].fault /\ unit[u].rolled /\ unit[u].updated
          /\ db[IdOf(u)].updated_at = db[IdOf(u)].created_at
    /\ \E u \in Active : unit[u].result = "True"

\* C9: when one id of a stored task occurs several times in a batch, in a run
\* with no fault and no other request, every occurrence succeeds and is
\* counted, also when the task was completed before, and the task ends
\* completed.
C9_Duplicates ==
    batch.pc = "returned" =>
        \A u \in Active :
            LET same == {v \in Active : IdOf(v) = IdOf(u)}
            IN  (Exists(db, IdOf(u)) /\ Cardinality(same) > 1) =>
                    /\ \A v \in same : unit[v].result = "True"
                    /\ batch.processed_count >= Cardinality(same)
                    /\ db[IdOf(u)].status = COMPLETED

C9_Witness ==
    /\ batch.pc = "returned"
    /\ N = MaxUnits
    /\ \A u \in Active : IdOf(u) = IdOf(1)
    /\ batch.processed_count = MaxUnits

\* C10: every stored task has a status of the closed set, whatever requests
\* and batch ran, in whatever interleaving.
C10_StatusClosed ==
    \A k \in Keys : Exists(db, k) => db[k].status \in {PENDING, IN_PROGRESS, COMPLETED}

C10_Witness ==
    /\ batch.pc = "returned" /\ batch.processed_count > 0
    /\ req.pc = "done" /\ req.kind = "update" /\ req.status_code = 200
    /\ \E k \in Keys : Exists(db, k) /\ db[k].status = IN_PROGRESS

\* C11: the task create_task produces has status pending whatever the body
\* says (a status in the body is ignored), the title and description of the
\* body, and the priority of the body, or 3 when the body has none; that task
\* is what the commit stores.
C11_CreatePending ==
    (req.kind = "create" /\ req.pc \in {"commit", "done"}) =>
        /\ req.task.status = "pending"
        /\ req.task.title = req.patch.title
        /\ req.task.description =
              (IF req.patch.description = None THEN NULL ELSE req.patch.description[1])
        /\ req.task.priority =
              (IF req.patch.priority = None THEN 3 ELSE req.patch.priority[1])
        /\ req.pc = "done" => db[req.id] = req.task

C11_Witness ==
    /\ req.kind = "create" /\ req.pc = "done" /\ req.status_code = 201
    /\ "status" \in DOMAIN req.patch /\ req.patch.status = COMPLETED
    /\ req.patch.priority = None
    /\ db[req.id].status = PENDING /\ db[req.id].priority = 3

\* C12: get_task fails with TaskNotFound, and returns no task, for every id
\* that was never created and every id whose task was deleted, whatever
\* requests ran before; for a stored id it returns the stored task.
C12_GetTask ==
    /\ \A k \in Keys : (k \in deleted \/ k >= nextId) => ~Exists(db, k)
    /\ (req.kind = "get" /\ req.pc \in {"commit", "done"}) =>
          IF Exists(db, req.id)
          THEN req.task = db[req.id] /\ req.status_code \in {0, 200}
          ELSE req.task = NoTask /\ req.status_code = 404 /\ req.pc = "done"

C12_Witness ==
    /\ req.kind = "get" /\ req.pc = "done"
    /\ req.id \in deleted
    /\ req.status_code = 404 /\ req.task = NoTask

\* C13: update_task sets exactly the fields the patch sets, to the patch's
\* values, and leaves the other fields among title, description, status and
\* priority as they were; the task keeps its id and its created_at.
C13_PartialUpdate ==
    (req.kind = "update" /\ req.pc \in {"commit", "done"} /\ req.status_code # 404) =>
        /\ \A f \in {"title", "description", "status", "priority"} :
              req.task[f] = (IF req.patch[f] = None THEN req.loaded[f] ELSE req.patch[f][1])
        /\ req.task.created_at = req.loaded.created_at
        /\ req.pc = "done" => (Exists(db, req.id) /\ db[req.id] = req.task)

C13_Witness ==
    /\ req.kind = "update" /\ req.pc = "done" /\ req.status_code = 200
    /\ req.patch.priority # None /\ req.patch.title = None
    /\ req.patch.description = None /\ req.patch.status = None
    /\ req.loaded.status = COMPLETED
    /\ db[req.id].priority # req.loaded.priority
    /\ db[req.id].status = COMPLETED /\ db[req.id].title = req.loaded.title

\* C14: a successful update_task leaves the task with an updated_at greater
\* than the one it had, for every patch, also one whose values are the stored
\* ones. Stated of the step in which update_task writes and returns, for calls
\* made when the clock has moved past the stored updated_at, so that two writes
\* within one reading of the clock are not what refutes it.
C14_Refresh ==
    [][(/\ req.kind = "update" /\ req.pc = "flush" /\ req'.pc = "commit"
        /\ now > req.loaded.updated_at)
       => req'.task.updated_at > req.loaded.updated_at]_vars

\* The tasks a listing with the filter of the request is to range over; an
\* absent filter and an empty one select every task.
Selected ==
    {k \in Keys :
        /\ Exists(db, k)
        /\ IF req.status_filter \in {None, Some("")} THEN TRUE
           ELSE db[k].status = req.status_filter[1]}

C16_Window ==
    (req.kind = "list" /\ req.pc \in {"commit", "done"}) =>
        LET n == Len(req.tasks)
            rest == IF req.total - req.skip > 0 THEN req.total - req.skip ELSE 0
            at(i) == db[req.tasks[i]].created_at
        IN  /\ n = (IF req.limit < rest THEN req.limit ELSE rest)
            /\ \A i \in 1..n : req.tasks[i] \in Selected
            /\ \A i, j \in 1..n : i < j => (at(i) >= at(j) /\ req.tasks[i] # req.tasks[j])
            /\ \A i \in 1..n :
                  /\ Cardinality({k \in Selected : db[k].created_at > at(i)})
                        < req.skip + i
                  /\ Cardinality({k \in Selected : db[k].created_at >= at(i)})
                        >= req.skip + i

C16_Witness ==
    /\ req.kind = "list" /\ req.pc = "done"
    /\ req.skip = 1 /\ req.limit = 1 /\ req.total = 3
    /\ Len(req.tasks) = 1
    /\ \E k \in Selected : db[k].created_at > db[req.tasks[1]].created_at
    /\ \E k \in Selected \ {req.tasks[1]} :
          db[k].created_at = db[req.tasks[1]].created_at

\* C17: update_task and delete_task of an id that is not stored answer 404
\* without the repository's update or delete being reached: the store and
\* every open transaction are as before, and a request goes on to its write
\* only with the task it loaded.
C17_NotFound ==
    /\ [](req.kind \in {"update", "delete"} =>
            /\ req.pc \in {"flush", "commit"} => req.loaded # NoTask
            /\ req.status_code = 404 =>
                  (req.pc = "done" /\ req.loaded = NoTask /\ pending[req.sess] = NoWrite))
    /\ [][(/\ req.pc \in {"idle", "done"} /\ req' # req
           /\ req'.kind \in {"update", "delete"}
           /\ ~Exists(db, req'.id))
          => (/\ req'.status_code = 404 /\ req'.pc = "done"
              /\ db' = db /\ pending' = pending /\ deleted' = deleted)]_vars

C17_Witness ==
    /\ req.kind = "delete" /\ req.pc = "done" /\ req.status_code = 404
    /\ req.id \in deleted
    /\ \E k \in Keys : Exists(db, k)

C19_PriorityRange ==
    \A k \in Keys : Exists(db, k) => db[k].priority \in 1..5

\* C20: a stored task keeps the created_at it was created with through every
\* update_task and every status change of a batch, and its updated_at is never
\* before its created_at.
C20_Timestamps ==
    /\ [](\A k \in Keys : Exists(db, k) => db[k].updated_at >= db[k].created_at)
    /\ [][\A k \in Keys :
            (Exists(db, k) /\ Exists(db', k)) => db'[k].created_at = db[k].created_at]_vars

C20_Witness ==
    /\ batch.pc = "returned" /\ batch.processed_count > 0
    /\ req.kind = "update" /\ req.pc = "done" /\ req.status_code = 200
    /\ \E u \in Active :
          /\ IdOf(u) = req.id
          /\ unit[u].result = "True"
          /\ db[req.id].updated_at > db[req.id].created_at

\* if not v ... / any(task_id <= 0 for task_id in v): the lists the validator
\* raises for.
InvalidIds(ids) == ids = <<>> \/ \E i \in 1..Len(ids) : ids[i] <= 0

\* C21: a batch request whose id list is empty or holds an id that is not
\* positive is answered 422 at the boundary: no unit is launched for it, no
\* session stays open, no statement is issued and no task changes.
C21_Rejected ==
    /\ []((batch.pc # "idle" /\ InvalidIds(batch.task_ids)) =>
            /\ batch.pc = "rejected" /\ batch.status_code = 422
            /\ \A u \in Units : unit[u] = IdleUnit
            /\ \A s \in SessIds : pending[s] = NoWrite
            /\ open = {} /\ conns = {})
    /\ [][(batch'.pc = "rejected" \/ batch.pc = "rejected") =>
            (db' = db /\ unit' = unit)]_vars

C21_Witness ==
    /\ batch.pc = "rejected" /\ batch.status_code = 422
    /\ Len(batch.task_ids) = 2
    /\ Exists(db, batch.task_ids[1]) /\ db[batch.task_ids[1]].status = PENDING
    /\ batch.task_ids[2] <= 0
    /\ now = MaxTime

\* C22: a single-item operation leaves no partial state: its writes are held in
\* its session's transaction until the handler has finished, the committed
\* store changes only at the commit of a request that succeeded, and a request
\* that raises (task not found or a storage error) answers with the error, has
\* its session closed and none of its writes is in the store then or later.
C22_NoPartialState ==
    /\ [](/\ req.pc = "commit" /\ req.kind = "create" => ~Exists(db, req.id)
          /\ req.pc = "commit" /\ req.kind \in {"update", "delete"} =>
                db[req.id] = req.loaded
          /\ req.pc \in {"idle", "done"} => \A s \in SessIds : pending[s] = NoWrite)
    /\ [][db' # db => /\ req.pc = "commit" /\ req'.pc = "done"
                      /\ req'.status_code \in {200, 201, 204}]_vars
    /\ [][(req' # req /\ req'.pc = "done" /\ req'.status_code \in {404, 500}) =>
            /\ db' = db
            /\ pending'[req'.sess] = NoWrite
            /\ req'.sess \notin open' /\ req'.sess \notin conns']_vars

C22_Witness ==
    /\ req.pc = "done" /\ req.kind = "update" /\ req.status_code = 500
    /\ req.task.title # req.loaded.title
    /\ db[req.id] = req.loaded
    /\ reqs = MaxOps

C24_Frame ==
    [][/\ \A k \in DOMAIN db :
            /\ Exists(db', k) <=> Exists(db, k)
            /\ Exists(db, k) =>
                  /\ db'[k].title = db[k].title
                  /\ db'[k].description = db[k].description
                  /\ db'[k].priority = db[k].priority
                  /\ db'[k].created_at = db[k].created_at
            /\ (\A u \in Active : IdOf(u) # k) => db'[k] = db[k]
            /\ db'[k] # db[k] => db'[k].status = COMPLETED
       /\ nextId' = nextId
       /\ \A u \in Active :
            (unit[u].pc = "commit" /\ unit'[u].committed /\ ~Exists(db, IdOf(u)))
                => db' = db]_vars

C24_Witness ==
    /\ batch.pc = "returned" /\ N = MaxUnits
    /\ \E u, v \in Active :
          /\ unit[u].result = "True" /\ db[IdOf(u)].status = COMPLETED
          /\ db[IdOf(u)].updated_at > db[IdOf(u)].created_at
          /\ unit[v].committed /\ ~unit[v].updated /\ ~Exists(db, IdOf(v))

\* C25: when a task is deleted and the delete is committed before the unit of
\* that id issues its update_status, the unit matches no row and writes
\* nothing, it ends as failed, the task stays deleted, the batch returns
\* normally and counts the other units as if nothing had happened.
C25_DeletedMeanwhile ==
    /\ [][\A u \in Active :
            (unit[u].pc = "update" /\ unit'[u].pc = "commit" /\ IdOf(u) \in deleted)
                => (~unit'[u].updated /\ pending'[unit[u].sess] = NoWrite)]_vars
    /\ [](/\ \A k \in deleted : ~Exists(db, k)
          /\ \A u \in Active :
                /\ (Done(u) /\ ~unit[u].updated) => unit[u].result = "False"
                /\ (Done(u) /\ Exists(db, IdOf(u))) => unit[u].result = "True"
          /\ batch.pc # "raised"
          /\ batch.pc = "returned" =>
                batch.processed_count =
                    Cardinality({u \in Active : unit[u].updated}))

C25_Witness ==
    /\ batch.pc = "returned" /\ N = MaxUnits /\ batch.processed_count = 1
    /\ req.kind = "delete" /\ req.pc = "done" /\ req.status_code = 204
    /\ \E u, v \in Active :
          /\ IdOf(u) = req.id /\ unit[u].committed /\ unit[u].result = "False"
          /\ IdOf(v) # req.id /\ unit[v].result = "True"
          /\ db[IdOf(v)].status = COMPLETED

\* C26: when update_task runs beside the unit of the same task and its patch
\* does not set status, the task ends completed with every patched field at
\* its patched value, whichever of the two commits first and also when the
\* request loaded the task before the unit committed; completed is lost only
\* to a patch that sets status itself.
C26_PatchBesideUnit ==
    (/\ req.kind = "update" /\ req.pc = "done" /\ req.status_code = 200
     /\ \E u \in Active : IdOf(u) = req.id /\ unit[u].committed /\ unit[u].updated)
    => /\ db[req.id].status # COMPLETED => req.patch.status # None
       /\ req.patch.status = None =>
             \A f \in Assigned(req.patch) : db[req.id][f] = req.patch[f][1]

C26_Witness ==
    /\ req.kind = "update" /\ req.pc = "done" /\ req.status_code = 200
    /\ req.patch.status = None /\ req.patch.title = Some("t2")
    /\ req.loaded.status = PENDING /\ req.task.status = COMPLETED
    /\ db[req.id].status = COMPLETED /\ db[req.id].title = "t2"
    /\ \E u \in Active : IdOf(u) = req.id /\ unit[u].result = "True"
    /\ batch.pc = "returned"

\* C27: the session of a unit is closed and its connection given back when the
\* unit ends, whether it succeeded, matched no row or failed; once
\* process_task_batch has returned no session of the batch is open, no
\* connection is held and no statement is left in a transaction.
C27_Released ==
    /\ \A u \in Active :
          Done(u) => /\ unit[u].sess \notin open
                     /\ unit[u].sess \notin conns
                     /\ pending[unit[u].sess] = NoWrite
    /\ batch.pc \in {"returned", "raised"} =>
          /\ open = {} /\ conns = {}
          /\ \A s \in SessIds : pending[s] = NoWrite

C27_Witness ==
    /\ batch.pc = "returned" /\ N = MaxUnits
    /\ \E u, v \in Active :
          /\ unit[u].result = "True" /\ unit[u].committed
          /\ unit[v].fault /\ unit[v].sess # 0 /\ unit[v].sess # unit[u].sess
    /\ open = {} /\ conns = {}

\* C28: no order is imposed on the status: update_task with any status of the
\* enumeration is carried out whatever the task's status is, a completed task
\* set back to pending or in_progress included, and a unit sets a stored task
\* to completed from any status.
C28_NoTransitionOrder ==
    /\ [](req.kind = "update" /\ req.pc = "done" =>
            /\ req.status_code \in {200, 404}
            /\ req.status_code = 404 => req.loaded = NoTask)
    /\ [][(/\ req.kind = "update" /\ req.pc = "commit" /\ req'.pc = "done"
            /\ req.patch.status # None)
            => /\ req'.status_code = 200
               /\ req.patch.status[1] # req.loaded.status =>
                     db'[req.id].status = req.patch.status[1]]_vars
    /\ [][\A u \in Active :
            /\ (unit[u].pc = "update" /\ unit'[u].pc = "commit" /\ Exists(db, IdOf(u)))
                 => unit'[u].updated
            /\ (unit[u].pc = "commit" /\ unit'[u].pc = "done" /\ Exists(db, IdOf(u)))
                 => (unit'[u].result = "True" /\ db'[IdOf(u)].status = COMPLETED)]_vars

C28_Witness ==
    /\ req.kind = "update" /\ req.pc = "done" /\ req.status_code = 200
    /\ req.loaded.status = COMPLETED /\ req.patch.status = Some(IN_PROGRESS)
    /\ req.task.status = IN_PROGRESS
    /\ \E u \in Active : IdOf(u) = req.id /\ unit[u].result = "True"
    /\ db[req.id].status = COMPLETED
    /\ batch.pc = "returned"

\* C29: a field of a patch sent as null is read as a field left out:
\* update_task sets no title, description, status or priority to null, and
\* once a task's description is not null no update_task makes it null.
C29_NullIsAbsent ==
    /\ [](/\ \A k \in DOMAIN db :
                Exists(db, k) => /\ db[k].title # NULL
                                 /\ db[k].status \in task_status_enum
                                 /\ db[k].priority \in PriorityMin..PriorityMax
          /\ (req.kind = "update" /\ req.pc # "idle") =>
                \A f \in PatchFields : req.body[f] = Null => req.patch[f] = None
          /\ (req.kind = "update" /\ req.pc = "commit"
                 /\ pending[req.sess].op = "update") =>
                \A f \in DOMAIN pending[req.sess].cols : req.body[f] # Null)
    /\ [][\A k \in DOMAIN db :
            (Exists(db, k) /\ Exists(db', k) /\ db[k].description # NULL)
                => db'[k].description # NULL]_vars

C29_Witness ==
    /\ req.kind = "update" /\ req.pc = "done" /\ req.status_code = 200
    /\ req.body.description = Null /\ req.body.title = Null
    /\ req.loaded.description = "d1"
    /\ db[req.id].description = "d1" /\ db[req.id].title = "t2"

====
